---- MODULE Spec2Model ----
(***************************************************************************)
(* HashFS (src/hashfs/hashfs.py): a content addressable file store.        *)
(*                                                                         *)
(* Strings (paths, identifiers, extensions) are sequences of one-character *)
(* strings, so that joining, splitting, sharding and un-sharding are       *)
(* computed character by character as the Python code computes them.       *)
(* The filesystem is a map from absolute file paths to contents plus a set *)
(* of directories.                                                         *)
(***************************************************************************)
EXTENDS Integers, Sequences, FiniteSets, TLC

VARIABLES
    algorithm,  \* self.algorithm, the configured primary algorithm
    files,      \* the filesystem's regular files: absolute path -> content
    dirs,       \* the filesystem's directories (absolute paths)
    last,       \* the last call made on the store, its arguments and outcome
    calls       \* the calls in progress, one per process: where each stands

vars == <<algorithm, files, dirs, last, calls>>

----------------------------------------------------------------------------
(* Bounds and configuration *)

\* How many temporary files the temporary directory can hold at once.
MaxTmp == 1

\* How many processes share the store.
MaxCalls == 2

\* HashFS.__init__(root, depth, width, ...): the store is constructed with
\* two levels of one-character shard directories.
depth == 2
width == 1

None == <<"None">>

SEP == "/"
EXTSEP == "."

\* self.root, the temporary directory and the working directory of the process.
root == <<"/", "r">>
tmpdir == <<"/", "t">>
cwd == <<"/", "w">>

----------------------------------------------------------------------------
(* Strings *)

StartsWith(s, p) == Len(s) >= Len(p) /\ SubSeq(s, 1, Len(p)) = p

\* str.rfind(c): the last index of character c in s, 0 when there is none.
RECURSIVE RFindFrom(_, _, _)
RFindFrom(s, c, i) ==
    IF i = 0 THEN 0 ELSE IF s[i] = c THEN i ELSE RFindFrom(s, c, i - 1)

RFind(s, c) == RFindFrom(s, c, Len(s))

\* str.replace(c, ""): s without its characters c.
RECURSIVE Without(_, _)
Without(s, c) ==
    IF s = <<>> THEN <<>>
    ELSE IF Head(s) = c THEN Without(Tail(s), c)
    ELSE <<Head(s)>> \o Without(Tail(s), c)

\* str.split(c)
RECURSIVE Split(_, _)
Split(s, c) ==
    LET I == {i \in 1..Len(s) : s[i] = c}
    IN IF I = {} THEN <<s>>
       ELSE LET i == CHOOSE k \in I : \A j \in I : k <= j
            IN <<SubSeq(s, 1, i - 1)>> \o Split(SubSeq(s, i + 1, Len(s)), c)

\* c.join(parts)
RECURSIVE JoinWith(_, _)
JoinWith(parts, c) ==
    IF parts = <<>> THEN <<>>
    ELSE IF Len(parts) = 1 THEN parts[1]
    ELSE parts[1] \o <<c>> \o JoinWith(Tail(parts), c)

----------------------------------------------------------------------------
(* os.path *)

isabs(p) == p # <<>> /\ p[1] = SEP

\* os.path.join(a, b): an absolute b replaces a.
join2(a, b) ==
    IF isabs(b) THEN b
    ELSE IF a = <<>> \/ a[Len(a)] = SEP THEN a \o b
    ELSE a \o <<SEP>> \o b

\* os.path.join(a, *parts)
RECURSIVE join(_, _)
join(a, parts) ==
    IF parts = <<>> THEN a ELSE join(join2(a, Head(parts)), Tail(parts))

\* os.path.dirname(p): everything before the last separator, trailing
\* separators stripped unless the head is the root directory.
dirname(p) ==
    LET i == RFind(p, SEP)
        head == SubSeq(p, 1, i)
    IN IF head # <<>> /\ head # <<SEP>>
       THEN SubSeq(head, 1, Len(head) - 1) ELSE head

\* os.path.basename(p)
basename(p) == SubSeq(p, RFind(p, SEP) + 1, Len(p))

\* os.path.abspath of a path given to the operating system by the process.
abspath(p) == IF isabs(p) THEN p ELSE join2(cwd, p)

\* os.path.splitext(p): the extension starts at the last dot of the last
\* component, leading dots of the component not counted.
splitext(p) ==
    LET sepIndex == RFind(p, SEP)
        dotIndex == RFind(p, EXTSEP)
    IN IF dotIndex > sepIndex
          /\ \E k \in (sepIndex + 1)..(dotIndex - 1) : p[k] # EXTSEP
       THEN <<SubSeq(p, 1, dotIndex - 1), SubSeq(p, dotIndex, Len(p))>>
       ELSE <<p, <<>>>>

\* The components of an absolute path.
Components(p) == SelectSeq(Split(p, SEP), LAMBDA c : c # <<>>)

RECURSIVE CommonLen(_, _)
CommonLen(a, b) ==
    IF a = <<>> \/ b = <<>> \/ Head(a) # Head(b) THEN 0
    ELSE 1 + CommonLen(Tail(a), Tail(b))

\* os.path.relpath(path, start) on absolute paths.
os_relpath(path, start) ==
    LET pc == Components(path)
        sc == Components(start)
        n == CommonLen(pc, sc)
        ups == [i \in 1..(Len(sc) - n) |-> <<".", ".">>]
        rest == ups \o SubSeq(pc, n + 1, Len(pc))
    IN IF rest = <<>> THEN <<".">> ELSE JoinWith(rest, SEP)

----------------------------------------------------------------------------
(* Contents and digests *)

\* The byte contents a caller may store.
Contents == {"x", "y"}

\* What a file holds when a copy into it was cut short.
Partial == "partial"

\* _mktempfile: the algorithms always computed, and the optional ones.
default_algo_list == {"sha1", "sha256", "sha384", "sha512", "md5"}
other_algo_list ==
    {"sha224", "sha3_224", "sha3_256", "sha3_384", "sha3_512", "blake2b", "blake2s"}

\* hashlib.new(a).hexdigest() over content c: one fixed hexadecimal string per
\* algorithm and content, all distinct. The sha256 digests of "x" and "y"
\* share their first shard directory, those of "x" and "z" both; the md5
\* digest of "y" shares both shard directories with the sha256 digest of "x".
hexdigest(a, c) ==
    CASE a = "sha256" /\ c = "x" -> <<"a", "b", "1", "2">>
      [] a = "sha256" /\ c = "y" -> <<"a", "c", "3", "4">>
      [] a = "sha256" /\ c = "z" -> <<"a", "b", "5", "6">>
      [] a = "md5" /\ c = "x" -> <<"b", "a", "5">>
      [] a = "md5" /\ c = "y" -> <<"a", "b", "7">>
      [] OTHER -> <<a, c>>

\* An identifier no content hashes to.
NeverId == <<"f", "f", "0", "0">>

\* A checksum no digest equals.
WrongChecksum == <<"0", "0">>

----------------------------------------------------------------------------
(* Sharding and canonical paths *)

\* Python's s[a:b] (0-based, end exclusive, clipped to the string).
Slice(s, a, b) ==
    LET lo == IF a > Len(s) THEN Len(s) ELSE a
        hi == IF b > Len(s) THEN Len(s) ELSE b
    IN IF hi <= lo THEN <<>> ELSE SubSeq(s, lo + 1, hi)

\* utils.shard(id, d, w): d segments of w characters, then the remaining
\* suffix as the leaf; segments past the end of id are short or empty.
shardby(id, d, w) ==
    [i \in 1..d |-> Slice(id, (i - 1) * w, i * w)] \o <<Slice(id, d * w, Len(id))>>

\* HashFS.shard(id)
shard(id) == shardby(id, depth, width)

\* idpath that puts the separator before every extension.
idpathin_adddot(id, extension, d, w) ==
    LET paths == shardby(id, d, w)
        ext == IF extension # None /\ extension # <<>>
               THEN <<EXTSEP>> \o extension ELSE <<>>
    IN join(root, paths) \o ext

\* HashFS.idpath(id, extension) in a store of depth d and width w.
idpathin(id, extension, d, w) ==
    LET paths == shardby(id, d, w)
        ext == IF extension # None /\ extension # <<>>
                  /\ ~StartsWith(extension, <<EXTSEP>>)
               THEN <<EXTSEP>> \o extension
               ELSE IF extension = None \/ extension = <<>> THEN <<>>
               ELSE extension
    IN join(root, paths) \o ext

\* HashFS.idpath(id, extension)
idpath(id, extension) == idpathin(id, extension, depth, width)

\* utils.issubdir(subpath, path): subpath lies strictly below path.
issubdir(subpath, path) == StartsWith(subpath, path \o <<SEP>>)

\* HashFS.haspath(path)
haspath(path) == issubdir(abspath(path), root)

\* HashFS.relpath(path)
relpath(path) == os_relpath(abspath(path), root)

\* unshard that leaves the extension in the identifier.
unshard_keepext(path) ==
    IF ~haspath(path) THEN <<"ValueError">> ELSE Without(relpath(path), SEP)

\* HashFS.unshard(path): the identifier a path encodes, or ValueError.
unshard(path) ==
    IF ~haspath(path) THEN <<"ValueError">>
    ELSE Without(splitext(relpath(path))[1], SEP)

----------------------------------------------------------------------------
(* The filesystem: fs = [f |-> files, d |-> dirs] *)

\* os.path.isfile(p)
isfile(fs, p) == abspath(p) \in DOMAIN fs.f

\* os.path.isdir(p)
isdir(fs, p) == abspath(p) \in fs.d

\* os.listdir(d): the entries (files and directories) directly in d.
listdir(fs, d) == {e \in (DOMAIN fs.f) \cup fs.d : e # d /\ dirname(e) = d}

\* os.remove(p)
os_remove(fs, p) ==
    [fs EXCEPT !.f = [q \in (DOMAIN fs.f) \ {abspath(p)} |-> fs.f[q]]]

\* os.rmdir(d)
os_rmdir(fs, d) == [fs EXCEPT !.d = fs.d \ {d}]

\* os.rmdir that removes the directory with everything below it.
rmdir_tree(fs, d) ==
    [ok |-> d \in fs.d,
     fs |-> [f |-> [q \in {q \in DOMAIN fs.f : ~StartsWith(q, d \o <<SEP>>)} |-> fs.f[q]],
             d |-> {e \in fs.d : e # d /\ ~StartsWith(e, d \o <<SEP>>)}]]

\* os.rmdir(d) with its errors: FileNotFoundError for a missing directory,
\* OSError for one that is not empty. The result is [ok, fs].
rmdir(fs, d) ==
    IF d \notin fs.d \/ {e \in (DOMAIN fs.f) \cup fs.d : e # d /\ dirname(e) = d} # {}
    THEN [ok |-> FALSE, fs |-> fs]
    ELSE [ok |-> TRUE, fs |-> [fs EXCEPT !.d = fs.d \ {d}]]

\* Writing content c to the file at p (created or replaced).
write(fs, p, c) ==
    [fs EXCEPT !.f = [q \in (DOMAIN fs.f) \cup {p} |-> IF q = p THEN c ELSE fs.f[q]]]

\* The directory d and its ancestors, the root directory "/" excluded.
RECURSIVE Ancestors(_)
Ancestors(d) ==
    IF d = <<>> \/ d = <<SEP>> THEN {} ELSE {d} \cup Ancestors(dirname(d))

\* HashFS.makepath(path): os.makedirs creates every missing directory down
\* to path; an existing path is accepted when it is a directory. The result
\* is [ok, fs]: ok is FALSE when a component that must be a directory is a
\* regular file (NotADirectoryError, FileExistsError with the assertion).
makepath(fs, path) ==
    IF \E a \in Ancestors(path) : a \in DOMAIN fs.f
    THEN [ok |-> FALSE, fs |-> fs]
    ELSE [ok |-> TRUE, fs |-> [fs EXCEPT !.d = fs.d \cup Ancestors(path)]]

\* HashFS.files(): every regular file below the root.
storefiles(fs) == {p \in DOMAIN fs.f : issubdir(p, root)}

----------------------------------------------------------------------------
(* Address resolution, lookup and deletion *)

\* glob.glob(filepath + ".*"): the entries beside filepath whose name is
\* filepath's followed by a dot and anything.
globext(fs, filepath) ==
    {e \in (DOMAIN fs.f) \cup fs.d :
        /\ dirname(e) = dirname(filepath)
        /\ StartsWith(basename(e), basename(filepath) \o <<EXTSEP>>)}

\* realpath that looks for a path with an extension before the plain one.
realpath_extfirst(fs, file) ==
    LET rel == join2(root, file)
        filepath == idpath(file, None)
        paths == globext(fs, filepath)
    IN IF isfile(fs, file) THEN {file}
       ELSE IF isfile(fs, rel) THEN {rel}
       ELSE IF paths # {} THEN paths
       ELSE IF isfile(fs, filepath) THEN {filepath}
       ELSE {None}

\* HashFS.realpath(file): the paths the call may return (glob's first match
\* is whichever entry the directory listing yields first), None when no
\* candidate matches.
realpath(fs, file) ==
    LET rel == join2(root, file)
        filepath == idpath(file, None)
        paths == globext(fs, filepath)
    IN IF isfile(fs, file) THEN {file}
       ELSE IF isfile(fs, rel) THEN {rel}
       ELSE IF isfile(fs, filepath) THEN {filepath}
       ELSE IF paths # {} THEN paths
       ELSE {None}

\* HashFS.get(file) for each path realpath may return: None, or the address
\* (id, relpath, abspath); unshard raises ValueError outside the root.
getat(rp) ==
    IF rp = None THEN [found |-> FALSE, err |-> "none"]
    ELSE IF ~haspath(rp) THEN [found |-> FALSE, err |-> "ValueError"]
    ELSE [found |-> TRUE, err |-> "none",
          id |-> unshard(rp), relpath |-> relpath(rp), abspath |-> rp]

get(fs, file) == {getat(rp) : rp \in realpath(fs, file)}

\* remove_empty that removes the first empty directory and stops.
remove_loop_once(fs, subpath) ==
    IF subpath = root THEN fs
    ELSE IF listdir(fs, subpath) # {} THEN fs
    ELSE os_rmdir(fs, subpath)

\* HashFS.remove_empty(subpath), the loop.
RECURSIVE remove_loop(_, _)
remove_loop(fs, subpath) ==
    IF subpath = root THEN fs
    ELSE IF listdir(fs, subpath) # {} THEN fs
    ELSE remove_loop(os_rmdir(fs, subpath), dirname(subpath))

\* HashFS.remove_empty(subpath)
remove_empty(fs, subpath) ==
    IF ~haspath(subpath) THEN fs ELSE remove_loop(fs, abspath(subpath))

\* HashFS.delete(file) once realpath has answered rp.
deleteat(fs, rp) ==
    IF rp = None THEN fs
    ELSE remove_empty(os_remove(fs, rp), dirname(rp))

\* HashFS.delete(file): the filesystems the call may leave.
delete(fs, file) == {deleteat(fs, rp) : rp \in realpath(fs, file)}

\* delete of a path that is an existing file (the temporary file, the
\* canonical path): realpath answers the path itself.
deletefile(fs, path) == CHOOSE r \in delete(fs, path) : TRUE

----------------------------------------------------------------------------
(* put *)

\* The algorithm argument left out (algorithm=None).
NoAlgorithm == "None"

\* The names NamedTemporaryFile may give a temporary file.
TmpNames == <<"k", "l", "m", "n", "o", "p">>

tmppath(n) == tmpdir \o <<SEP, TmpNames[n]>>

\* HashFS._mktempfile(stream, algorithm): the stream's content c is written
\* to a new temporary file named by n, and digested.
mktempfile(fs, c, alg, n) ==
    LET algos == IF alg # NoAlgorithm /\ alg \in other_algo_list
                 THEN default_algo_list \cup {alg} ELSE default_algo_list
    IN [fs |-> write(fs, tmppath(n), c),
        hex_digests |-> [a \in algos |-> hexdigest(a, c)],
        fname |-> tmppath(n)]

\* What the operating system may do to a call of put: nothing, fail the
\* first directory creation of makedirs, fail shutil.move before anything
\* was written to the target, or fail it with the target partly written.
Faults == {"none", "mkdir", "move", "move_partial"}

\* shutil.move(src, dst): a destination that is a directory receives the
\* file under its own name, and shutil.Error is raised when that name is
\* taken; otherwise the file is renamed to dst. The result is [ok, fs].
move(fs, src, dst) ==
    LET real_dst == IF isdir(fs, dst) THEN join2(dst, basename(src)) ELSE dst
    IN IF isdir(fs, dst) /\ (isfile(fs, real_dst) \/ isdir(fs, real_dst))
       THEN [ok |-> FALSE, fs |-> fs]
       ELSE [ok |-> TRUE, fs |-> os_remove(write(fs, real_dst, fs.f[src]), src)]

\* HashFS._copy, the validation of a new object: "ok", or the exception
\* raised (hex_digests[algorithm] raises KeyError for a name not digested).
copy_validate(hex_digests, alg, checksum) ==
    IF alg # NoAlgorithm /\ checksum # None
    THEN IF alg \notin DOMAIN hex_digests THEN "KeyError"
         ELSE IF hex_digests[alg] # checksum THEN "ChecksumMismatch"
         ELSE "ok"
    ELSE "ok"

\* A relocation whose cleanup leaves a partly written canonical file.
copy_move_leavetarget(fs, fname, filepath, fault) ==
    LET mv == move(fs, fname, filepath)
    IN IF fault \in {"move", "move_partial"} \/ ~mv.ok
       THEN LET failed == IF fault = "move_partial"
                          THEN write(fs, filepath, Partial) ELSE fs
            IN [err |-> "StoreWriteFailure",
                cause |-> IF fault \in {"move", "move_partial"} THEN fault
                          ELSE "shutil.Error",
                fs |-> deletefile(failed, fname)]
       ELSE [err |-> "none", cause |-> "none", fs |-> mv.fs]

\* HashFS._copy, the relocation of the temporary file to its canonical path
\* under a fault: a failed move is cleaned up and raised again with its cause.
copy_move(fs, fname, filepath, fault) ==
    LET mv == move(fs, fname, filepath)
    IN IF fault \in {"move", "move_partial"} \/ ~mv.ok
       THEN LET failed == IF fault = "move_partial"
                          THEN write(fs, filepath, Partial) ELSE fs
                cleaned == IF isfile(failed, filepath)
                           THEN deletefile(failed, filepath) ELSE failed
            IN [err |-> "StoreWriteFailure",
                cause |-> IF fault \in {"move", "move_partial"} THEN fault
                          ELSE "shutil.Error",
                fs |-> deletefile(cleaned, fname)]
       ELSE [err |-> "none", cause |-> "none", fs |-> mv.fs]

\* A duplicate branch that forgets the temporary file.
copy_duplicate_keeptmp(fs, fname) == fs

\* HashFS._copy, the duplicate branch: the temporary file is deleted.
copy_duplicate(fs, fname) == deletefile(fs, fname)

\* HashFS._copy(stream, extension, algorithm, checksum) under a fault:
\* err is "none" or the exception raised, fs the filesystem left behind,
\* hit the fault that occurred.
copy(fs, c, extension, alg, checksum, n, fault) ==
    LET t == mktempfile(fs, c, alg, n)
        id == t.hex_digests["sha256"]
        filepath == idpath(id, extension)
        needdir == ~isdir(t.fs, dirname(filepath))
        mk == makepath(t.fs, dirname(filepath))
        valid == copy_validate(t.hex_digests, alg, checksum)
        mv == copy_move(mk.fs, t.fname, filepath, fault)
        base == [id |-> id, abspath |-> filepath, fname |-> t.fname,
                 is_duplicate |-> FALSE, cause |-> "none", hit |-> "none"]
    IN IF (fault = "mkdir" /\ needdir) \/ ~mk.ok
       THEN [base EXCEPT !.hit = IF mk.ok THEN "mkdir" ELSE "none"]
                @@ [err |-> "OSError", fs |-> t.fs]
       ELSE IF ~isfile(mk.fs, filepath)
       THEN IF valid = "KeyError"
            THEN base @@ [err |-> valid, fs |-> mk.fs]
            ELSE IF valid = "ChecksumMismatch"
            THEN base @@ [err |-> valid, fs |-> deletefile(mk.fs, t.fname)]
            ELSE [base EXCEPT !.cause = mv.cause,
                              !.hit = IF mv.cause \in {"move", "move_partial"}
                                     THEN fault ELSE "none"]
                     @@ [err |-> mv.err, fs |-> mv.fs]
       ELSE [base EXCEPT !.is_duplicate = TRUE]
                @@ [err |-> "none", fs |-> copy_duplicate(mk.fs, t.fname)]

----------------------------------------------------------------------------
(* Audit *)

\* HashFS.computehash(stream) with the configured algorithm alg.
computehash(alg, c) == hexdigest(alg, c)

\* HashFS.corrupted(extensions): the pairs (path, expected path) of the
\* files below the root that are not where their content says.
corrupted(fs, alg, extensions) ==
    {e \in {<<path, idpath(computehash(alg, fs.f[path]),
                           IF extensions THEN splitext(path)[2] ELSE None)>> :
                path \in storefiles(fs)} : e[2] # e[1]}

\* HashFS.repair, one entry (path, expected): a file at the expected path
\* wins and the corrupted one is removed, else the corrupted file is moved
\* there. The result is [ok, fs].
repair_entry(fs, path, expected) ==
    IF isfile(fs, expected) THEN [ok |-> TRUE, fs |-> os_remove(fs, path)]
    ELSE LET mk == makepath(fs, dirname(expected))
         IN IF ~mk.ok THEN [ok |-> FALSE, fs |-> fs]
            ELSE move(mk.fs, path, expected)

\* HashFS.repair, the loop over the corrupted entries found beforehand, in
\* the order the walk of the root yielded them: err is "none" or the
\* exception that ended the loop, repaired the entries done.
RECURSIVE repair_loop(_, _, _)
repair_loop(fs, entries, repaired) ==
    IF entries = <<>> THEN [err |-> "none", fs |-> fs, repaired |-> repaired]
    ELSE LET r == repair_entry(fs, Head(entries)[1], Head(entries)[2])
         IN IF ~r.ok THEN [err |-> "OSError", fs |-> r.fs, repaired |-> repaired]
            ELSE repair_loop(r.fs, Tail(entries), repaired + 1)

\* The orders in which a walk may yield the elements of S.
Orders(S) ==
    {o \in [1..Cardinality(S) -> S] : \A i, j \in 1..Cardinality(S) : o[i] = o[j] => i = j}

\* HashFS.repair(extensions): the outcomes of the call, one per order of
\* the walk.
repair(fs, alg, extensions) ==
    {repair_loop(fs, o, 0) : o \in Orders(corrupted(fs, alg, extensions))}

----------------------------------------------------------------------------
(* The store as a state machine *)

FS == [f |-> files, d |-> dirs]

Procs == 1..MaxCalls

\* A process that is in no call.
Idle ==
    [op |-> "none", arg |-> None, pc |-> "idle", path |-> None, fname |-> None,
     cur |-> None, todo |-> <<>>, vacant |-> FALSE, is_duplicate |-> FALSE,
     err |-> "none"]

\* What a caller passes to put.
Extensions == {None, <<"t">>, <<EXTSEP, "t">>}

\* The algorithm and checksum arguments of put(c, ...): neither, an
\* algorithm alone, a default or an optional algorithm with the right or a
\* wrong checksum, and a name in neither list of _mktempfile with a checksum.
Validations(c) ==
    {<<NoAlgorithm, None>>, <<"md5", None>>,
     <<"md5", hexdigest("md5", c)>>, <<"md5", WrongChecksum>>,
     <<"sha224", hexdigest("sha224", c)>>, <<"crc32", WrongChecksum>>}

\* A file of the user in the working directory, by its relative name.
userfile == <<"z">>

\* What a caller passes to get and delete: the identifiers of the contents,
\* an identifier never stored, a path relative to the root, an absolute
\* path, and the name of a file outside the root.
Tokens ==
    {hexdigest("sha256", c) : c \in Contents}
        \cup {NeverId,
              relpath(idpath(hexdigest("sha256", "x"), None)),
              idpath(hexdigest("sha256", "y"), <<"t">>),
              userfile}

\* The files below the root that hold content c.
holding(fs, c) == {p \in storefiles(fs) : fs.f[p] = c}

Init ==
    /\ algorithm \in {"sha256", "md5"}
    /\ files = [q \in {abspath(userfile)} |-> "u"]
    /\ dirs = {root, tmpdir, cwd}
    /\ last = [op |-> "init"]
    /\ calls = [p \in Procs |-> Idle]

\* HashFS.put(file, extension, algorithm, checksum) on something that is
\* neither a path to a file nor readable: Stream raises ValueError.
PutInvalid ==
    /\ last' = [op |-> "put", file |-> "invalid", err |-> "InvalidInput"]
    /\ UNCHANGED <<algorithm, files, dirs, calls>>

\* The last call was a successful put with these very arguments.
SameCall(c, extension, alg, checksum) ==
    /\ last.op = "put"
    /\ last.file = c
    /\ last.err = "none"
    /\ last.extension = extension
    /\ last.alg = alg
    /\ last.checksum = checksum

\* HashFS.put(file, extension, algorithm, checksum) on content c: nbefore
\* counts the files holding c before the call, repeat tells that the call
\* repeats the last one. The temporary file takes the first free name (the
\* names are interchangeable: nothing reads them but the call itself).
Put(c, extension, alg, checksum, fault) ==
    \E n \in 1..MaxTmp :
        /\ ~isfile(FS, tmppath(n))
        /\ \A m \in 1..(n - 1) : isfile(FS, tmppath(m))
        /\ \E r \in {copy(FS, c, extension, alg, checksum, n, fault)} :
              /\ r.hit = fault
              /\ files' = r.fs.f
              /\ dirs' = r.fs.d
              /\ last' = [op |-> "put", file |-> c, extension |-> extension,
                          alg |-> alg, checksum |-> checksum, fault |-> fault,
                          err |-> r.err, cause |-> r.cause,
                          id |-> r.id, relpath |-> relpath(r.abspath),
                          abspath |-> r.abspath, is_duplicate |-> r.is_duplicate,
                          fname |-> r.fname,
                          nbefore |-> Cardinality(holding(FS, c)),
                          repeat |-> SameCall(c, extension, alg, checksum)]
    /\ UNCHANGED <<algorithm, calls>>

\* HashFS.get(file)
Get(token) ==
    /\ \E r \in get(FS, token) : last' = [op |-> "get", token |-> token, result |-> r]
    /\ UNCHANGED <<algorithm, files, dirs, calls>>

\* What the operating system may do to a call of delete: nothing, or fail
\* os.remove with an OSError other than a missing file (permission, I/O).
DeleteFaults == {"none", "remove"}

\* HashFS.delete(file) under a fault: the OSError of os.remove is passed
\* over and the cleanup of directories skipped; err is what the caller gets.
Delete(token, fault) ==
    /\ \E rp \in realpath(FS, token) :
        LET fs == IF fault = "remove" THEN FS ELSE deleteat(FS, rp)
        IN /\ fault = "remove" => rp # None
           /\ files' = fs.f
           /\ dirs' = fs.d
           /\ last' = [op |-> "delete", token |-> token, realpath |-> rp,
                       fault |-> fault, err |-> "none"]
    /\ UNCHANGED <<algorithm, calls>>

Next ==
    \/ PutInvalid
    \/ \E c \in Contents, extension \in Extensions, fault \in Faults :
        \E v \in Validations(c) : Put(c, extension, v[1], v[2], fault)
    \/ \E token \in Tokens : Get(token)
    \/ \E token \in Tokens, fault \in DeleteFaults : Delete(token, fault)

Spec == Init /\ [][Next]_vars

----------------------------------------------------------------------------
(* The store under audit: objects are put, stored files are moved by hand *)
(* to incorrect paths inside the root, and the store is repaired.          *)

\* How many files the root may hold before put is refused.
MaxFiles == 2

\* The incorrect paths a stored file is moved to: the canonical path of
\* each content, a name in the root itself, a name with an extension in a
\* shard directory, and a name in a directory called like a canonical path.
Misplaced ==
    {idpath(computehash(algorithm, c), None) : c \in Contents}
        \cup {join2(root, <<"z">>),
              join2(dirname(idpath(computehash(algorithm, "x"), None)), <<"q", EXTSEP, "t">>),
              join2(idpath(computehash(algorithm, "x"), None), <<"g">>)}

\* A stored file is moved by hand to a free path inside the root, the
\* directories it needs being made.
Displace(src, dst) ==
    /\ src \in storefiles(FS)
    /\ dst # src
    /\ ~isfile(FS, dst)
    /\ ~isdir(FS, dst)
    /\ \A a \in Ancestors(dirname(dst)) : ~isfile(FS, a)
    /\ LET fs == os_remove(write([FS EXCEPT !.d = dirs \cup Ancestors(dirname(dst))],
                                 dst, files[src]), src)
       IN /\ files' = fs.f
          /\ dirs' = fs.d
    /\ last' = [op |-> "displace", src |-> src, dst |-> dst]
    /\ UNCHANGED <<algorithm, calls>>

\* HashFS.repair(extensions)
Repair(extensions) ==
    /\ \E r \in repair(FS, algorithm, extensions) :
        /\ files' = r.fs.f
        /\ dirs' = r.fs.d
        /\ last' = [op |-> "repair", extensions |-> extensions,
                    err |-> r.err, repaired |-> r.repaired]
    /\ UNCHANGED <<algorithm, calls>>

NextAudit ==
    \/ \E c \in Contents, extension \in {None, <<"t">>} :
        /\ Cardinality(storefiles(FS)) < MaxFiles
        /\ Put(c, extension, NoAlgorithm, None, "none")
    \/ \E src \in DOMAIN files, dst \in Misplaced : Displace(src, dst)
    \/ \E extensions \in BOOLEAN : Repair(extensions)

SpecAudit == Init /\ [][NextAudit]_vars

----------------------------------------------------------------------------
(* Properties of put, get and delete *)

PutOk == last.op = "put" /\ last.err = "none"

\* C1: after a successful put(C) returning id, get(id) finds an address
\* whose id is that identifier and whose file holds C.
PutThenGet ==
    PutOk =>
        \A a \in get(FS, last.id) :
            /\ a.found
            /\ a.id = last.id
            /\ files[abspath(a.abspath)] = last.file

\* A put with an extension stored a new object beside another one.
PutThenGetWitness ==
    /\ PutOk
    /\ last.extension = <<"t">>
    /\ ~last.is_duplicate
    /\ Cardinality(storefiles(FS)) >= 2

\* C2: a put that repeats the last successful put returns the same
\* identifier, reports is_duplicate, adds no file and leaves no temporary
\* file; the content is then held by as many files as after the first call,
\* exactly one where none held it before the first call.
PutTwice ==
    [][(last'.op = "put" /\ last'.err = "none" /\ last'.repeat) =>
            /\ last'.id = last.id
            /\ last'.abspath = last.abspath
            /\ last'.is_duplicate
            /\ files' = files
            /\ dirs' = dirs
            /\ last'.fname \notin DOMAIN files'
            /\ Cardinality(holding(FS', last'.file))
                   = last.nbefore + (IF last.is_duplicate THEN 0 ELSE 1)
            /\ (last.nbefore = 0 => holding(FS', last'.file) = {last'.abspath})]_vars

\* The second of two equal puts of a content not stored before.
PutTwiceWitness ==
    /\ PutOk
    /\ last.repeat
    /\ last.is_duplicate
    /\ holding(FS, last.file) = {last.abspath}

\* The digest computed for the algorithm of the last put differs from the
\* checksum given with it.
Mismatch ==
    /\ last.op = "put"
    /\ last.file \in Contents
    /\ last.alg \in default_algo_list \cup other_algo_list
    /\ last.checksum # None
    /\ hexdigest(last.alg, last.file) # last.checksum

\* C3: a put with an algorithm and a checksum that differs from the digest
\* computed for the algorithm fails with ChecksumMismatch, in every store
\* state (the operating system failing nothing).
MismatchAlwaysRaised ==
    (Mismatch /\ last.fault = "none") => last.err = "ChecksumMismatch"

\* C4: a put that fails with ChecksumMismatch leaves the files and the
\* directories below the root as they were, and no temporary file.
MismatchLeavesNothing ==
    [][(last'.op = "put" /\ last'.err = "ChecksumMismatch") =>
            /\ files' = files
            /\ dirs' = dirs
            /\ last'.fname \notin DOMAIN files']_vars

\* C5: a put that fails with any error leaves no temporary file of its own
\* and no new file below the root.
FailedPutLeavesNoFile ==
    [][(last'.op = "put" /\ last'.err # "none") =>
            /\ storefiles(FS') \subseteq storefiles(FS)
            /\ (last'.file \in Contents => last'.fname \notin DOMAIN files')]_vars

\* C6: when the relocation fails, put raises a failure carrying the cause,
\* and neither the temporary file nor a file at the canonical path exists.
MoveFailureCleansUp ==
    (last.op = "put" /\ last.err = "StoreWriteFailure") =>
        /\ last.cause = last.fault
        /\ last.cause \in {"move", "move_partial"}
        /\ last.fname \notin DOMAIN files
        /\ last.abspath \notin DOMAIN files

\* A relocation failed with the canonical target partly written, in a store
\* that holds another object.
MoveFailureWitness ==
    /\ last.op = "put"
    /\ last.err = "StoreWriteFailure"
    /\ last.fault = "move_partial"
    /\ storefiles(FS) # {}

\* C7: after delete(id), get(id) is absent; delete of an identifier never
\* stored changes nothing.
DeleteThenGetAbsent ==
    [][(last'.op = "delete" /\ last'.token \in {hexdigest("sha256", c) : c \in Contents}
                                              \cup {NeverId}) =>
            /\ \A a \in get(FS', last'.token) : ~a.found
            /\ (last'.token = NeverId => files' = files /\ dirs' = dirs)]_vars

\* The directories between the root and path, both excluded.
Chain(path) == {d \in Ancestors(dirname(path)) : issubdir(d, root)}

\* C8: a delete that removes a file below the root removes that file only,
\* removes no directory but ancestors of the file, keeps the root, and
\* leaves an ancestor of the file exactly if something is still in it.
DeleteRemovesEmptyAncestors ==
    [][(last'.op = "delete" /\ last'.fault = "none"
            /\ last'.realpath # None /\ haspath(last'.realpath)) =>
            LET f == abspath(last'.realpath)
            IN /\ DOMAIN files' = (DOMAIN files) \ {f}
               /\ \A q \in DOMAIN files' : files'[q] = files[q]
               /\ root \in dirs'
               /\ dirs' \subseteq dirs
               /\ dirs \ dirs' \subseteq Chain(f)
               /\ \A d \in Chain(f) \cap dirs :
                      d \in dirs' <=>
                          \E e \in (DOMAIN files') \cup dirs' : e # d /\ StartsWith(e, d \o <<SEP>>)
                                /\ RFind(e, SEP) = Len(d) + 1]_vars

\* A delete removed an object and its own shard directory, and stopped at a
\* directory that another object keeps.
DeleteRemovesEmptyAncestorsWitness ==
    /\ last.op = "delete"
    /\ last.realpath # None
    /\ haspath(last.realpath)
    /\ dirname(abspath(last.realpath)) \notin dirs
    /\ dirname(dirname(abspath(last.realpath))) \in dirs
    /\ storefiles(FS) # {}

\* C9: every file below the root sits at the canonical path of the digest of
\* its content under the configured algorithm, so corrupted() yields nothing.
AddressedByConfiguredDigest ==
    /\ \A p \in storefiles(FS) : unshard(p) = hexdigest(algorithm, files[p])
    /\ corrupted(FS, algorithm, TRUE) = {}

\* C13: the store holds at most one file per distinct content.
OneFilePerContent ==
    \A c \in Contents : Cardinality(holding(FS, c)) <= 1

\* The files and directories that are not below the root.
outside(fs) ==
    [f |-> [p \in (DOMAIN fs.f) \ storefiles(fs) |-> fs.f[p]],
     d |-> {d \in fs.d : ~issubdir(d, root)}]

\* C19: delete(token) removes nothing outside the root, whatever the token.
DeleteStaysInRoot ==
    [][last'.op = "delete" => outside(FS') = outside(FS)]_vars

\* C20: an error of os.remove other than a missing file is surfaced to the
\* caller of delete, and no directory is cleaned up.
RemoveFailureSurfaced ==
    (last.op = "delete" /\ last.fault = "remove") => last.err # "none"

----------------------------------------------------------------------------
(* Properties of repair *)

\* C10: once repair() has returned, corrupted() yields nothing, so that a
\* second repair() returns an empty list.
RepairIdempotent ==
    (last.op = "repair" /\ last.err = "none") =>
        corrupted(FS, algorithm, last.extensions) = {}

\* The path is one where put stores the content the file at it holds.
AsPut(fs, p) ==
    \E e \in Extensions : p = idpath(hexdigest("sha256", fs.f[p]), e)

\* A file that put had stored at last.src was moved to last.dst, a path
\* where put would not store it; the path it left is vacant and every other
\* file is where put stored it.
MovedAway ==
    /\ last.op = "displace"
    /\ \E e \in Extensions : last.src = idpath(hexdigest("sha256", files[last.dst]), e)
    /\ ~AsPut(FS, last.dst)
    /\ ~isfile(FS, last.src)
    /\ ~isdir(FS, last.src)
    /\ \A p \in storefiles(FS) \ {last.dst} : AsPut(FS, p)

\* C11: when a stored file is moved to a non-canonical path inside the root,
\* corrupted() yields one entry, the file paired with the path it was
\* stored at, and repair() moves the file back there, the count of files
\* being the same before and after.
MovedFileRepaired ==
    [][MovedAway =>
            /\ corrupted(FS, algorithm, TRUE) = {<<last.dst, last.src>>}
            /\ (last'.op = "repair" /\ last'.extensions) =>
                   /\ last'.err = "none"
                   /\ DOMAIN files' = ((DOMAIN files) \ {last.dst}) \cup {last.src}
                   /\ files'[last.src] = files[last.dst]
                   /\ Cardinality(storefiles(FS')) = Cardinality(storefiles(FS))]_vars

\* The contents held by the files below the root.
held(fs) == {fs.f[p] : p \in storefiles(fs)}

\* C16: repair() loses no content: whatever content a file below the root
\* held before the call, a file below the root holds after it.
RepairKeepsContents ==
    [][last'.op = "repair" => held(FS) \subseteq held(FS')]_vars

----------------------------------------------------------------------------
(* Properties of the address resolver *)

\* The files whose path is the sharded token followed by an extension.
WithExtension(fs, token) ==
    {p \in DOMAIN fs.f : splitext(p)[1] = idpath(token, None) /\ splitext(p)[2] # <<>>}

\* C15: realpath answers the first of its candidates that is an existing
\* file: the token as a path, the token below the root, the sharded token,
\* the sharded token with any extension; it answers None exactly when none
\* is. An object stored with and without an extension resolves to the path
\* without.
ResolverOrder ==
    \A token \in Tokens : \A rp \in realpath(FS, token) :
        LET asis == abspath(token) \in DOMAIN files
            inroot == abspath(join2(root, token)) \in DOMAIN files
            sharded == idpath(token, None) \in DOMAIN files
            some == WithExtension(FS, token) # {}
        IN /\ asis => rp = token
           /\ (~asis /\ inroot) => rp = join2(root, token)
           /\ (~asis /\ ~inroot /\ sharded) => rp = idpath(token, None)
           /\ (~asis /\ ~inroot /\ ~sharded /\ some) => rp \in WithExtension(FS, token)
           /\ rp = None <=> (~asis /\ ~inroot /\ ~sharded /\ ~some)
           /\ rp # None => abspath(rp) \in DOMAIN files

\* An object is stored with and without an extension, and its identifier
\* resolves to the path without.
ResolverOrderWitness ==
    \E token \in Tokens :
        /\ idpath(token, None) \in DOMAIN files
        /\ WithExtension(FS, token) # {}
        /\ realpath(FS, token) = {idpath(token, None)}

----------------------------------------------------------------------------
(* Sharding and un-sharding as functions: a store of any depth and width   *)
(* builds the path of an identifier and reads the identifier back.         *)

MaxDepth == 3
MaxWidth == 3

\* Hexadecimal identifiers of several lengths.
Identifiers ==
    {<<"a", "b", "1", "2">>, <<"0", "f", "3", "c", "9", "e">>,
     <<"d", "4", "e">>, <<"7", "a">>, <<"c">>}

InitShard ==
    /\ algorithm = "sha256"
    /\ files = [q \in {} |-> "x"]
    /\ dirs = {root}
    /\ calls = [p \in Procs |-> Idle]
    /\ \E id \in Identifiers, d \in 0..MaxDepth, w \in 1..MaxWidth, extension \in Extensions :
           last = [op |-> "config", id |-> id, depth |-> d, width |-> w,
                   extension |-> extension]

\* unshard(idpath(id, extension)) in the store configured by last.
Roundtrip ==
    /\ last.op = "config"
    /\ last' = [last EXCEPT !.op = "idpath"]
                  @@ [path |-> idpathin(last.id, last.extension, last.depth, last.width),
                      unsharded |-> unshard(idpathin(last.id, last.extension,
                                                     last.depth, last.width))]
    /\ UNCHANGED <<algorithm, files, dirs, calls>>

NextShard == Roundtrip

SpecShard == InitShard /\ [][NextShard]_vars

\* C14, as stated: unshard(idpath(id)) and unshard(idpath(id, extension))
\* are id for every identifier and every depth and width.
RoundtripAlways ==
    last.op = "idpath" => last.unsharded = last.id

\* C14, amended: unshard(idpath(id)) is id for every identifier, depth and
\* width, and unshard(idpath(id, extension)) is id when the shard segments
\* leave a leaf, depth * width < the length of id.
RoundtripWithLeaf ==
    (last.op = "idpath"
        /\ (last.extension = None \/ last.depth * last.width < Len(last.id)))
        => last.unsharded = last.id

\* An identifier was sharded to the last of its characters but one, with
\* an extension, and read back.
RoundtripWithLeafWitness ==
    /\ last.op = "idpath"
    /\ last.extension # None
    /\ last.depth * last.width = Len(last.id) - 1
    /\ last.depth > 1
    /\ last.unsharded = last.id

----------------------------------------------------------------------------
(* Processes sharing the store: each call of put and delete is the         *)
(* sequence of its operating system calls, and the calls of the processes  *)
(* interleave. What a reader sees is the filesystem of each state.         *)

\* The contents the processes store.
Payloads == {"x", "y", "z"}

\* One step of the call of process p: the call then stands at rec and the
\* filesystem is fs.
Step(p, rec, fs) ==
    /\ calls' = [calls EXCEPT ![p] = rec]
    /\ files' = fs.f
    /\ dirs' = fs.d
    /\ last' = [op |-> "calls"]
    /\ UNCHANGED algorithm

\* Before the processes start, objects are put one call after the other.
Store(c) ==
    /\ \A p \in Procs : calls[p].pc = "idle"
    /\ Put(c, None, NoAlgorithm, None, "none")

\* put, _mktempfile: the content is staged in a temporary file of the
\* process, and idpath computed.
BeginPut(p, c) ==
    /\ calls[p].pc = "idle"
    /\ ~isfile(FS, tmppath(p))
    /\ LET t == mktempfile(FS, c, NoAlgorithm, p)
           filepath == idpath(t.hex_digests["sha256"], None)
       IN Step(p, [Idle EXCEPT !.op = "put", !.arg = c, !.pc = "exists",
                               !.path = filepath, !.fname = t.fname,
                               !.cur = dirname(filepath)], t.fs)

\* put, os.makedirs: the parent of the directory to make is looked up, and
\* is to be made first when it does not exist.
PutExists(p) ==
    /\ calls[p].pc = "exists"
    /\ LET c == calls[p]
           head == dirname(c.cur)
       IN IF isdir(FS, head) \/ isfile(FS, head)
          THEN Step(p, [c EXCEPT !.pc = "mkdir", !.todo = <<c.cur>> \o c.todo], FS)
          ELSE Step(p, [c EXCEPT !.cur = head, !.todo = <<c.cur>> \o c.todo], FS)

\* put, os.makedirs: one os.mkdir. A directory that exists already is
\* accepted (FileExistsError is passed over, makepath asserts isdir); a
\* missing parent raises FileNotFoundError out of put.
PutMkdir(p) ==
    /\ calls[p].pc = "mkdir"
    /\ LET c == calls[p]
           d == Head(c.todo)
           next == [c EXCEPT !.todo = Tail(c.todo),
                             !.pc = IF Tail(c.todo) = <<>> THEN "isfile" ELSE "mkdir"]
       IN IF isdir(FS, d) THEN Step(p, next, FS)
          ELSE IF ~isdir(FS, dirname(d)) \/ isfile(FS, d)
          THEN Step(p, [c EXCEPT !.pc = "done", !.err = "OSError"], FS)
          ELSE Step(p, next, [FS EXCEPT !.d = dirs \cup {d}])

\* put, _copy: os.path.isfile(filepath)
PutIsFile(p) ==
    /\ calls[p].pc = "isfile"
    /\ LET c == calls[p]
           vacant == ~isfile(FS, c.path)
       IN Step(p, [c EXCEPT !.vacant = vacant,
                            !.pc = IF vacant THEN "move" ELSE "duplicate"], FS)

\* put, _copy: the duplicate branch.
PutDuplicate(p) ==
    /\ calls[p].pc = "duplicate"
    /\ Step(p, [calls[p] EXCEPT !.pc = "done", !.is_duplicate = TRUE],
            copy_duplicate(FS, calls[p].fname))

\* put, shutil.move with the temporary directory on the filesystem of the
\* root: os.rename, in one step; it fails when the directory of the target
\* is gone.
PutRename(p) ==
    /\ calls[p].pc = "move"
    /\ LET c == calls[p]
       IN IF isdir(FS, dirname(c.path)) /\ ~isdir(FS, c.path)
          THEN Step(p, [c EXCEPT !.pc = "done"],
                    os_remove(write(FS, c.path, files[c.fname]), c.fname))
          ELSE Step(p, [c EXCEPT !.pc = "failed"], FS)

\* put, shutil.move with the temporary directory on another filesystem:
\* os.rename fails and the file is copied; the copy opens the target,
\* which is created or truncated.
PutCopyOpen(p) ==
    /\ calls[p].pc = "move"
    /\ LET c == calls[p]
       IN IF isdir(FS, dirname(c.path)) /\ ~isdir(FS, c.path)
          THEN Step(p, [c EXCEPT !.pc = "copying"], write(FS, c.path, Partial))
          ELSE Step(p, [c EXCEPT !.pc = "failed"], FS)

\* put, shutil.move, the copy: the content is written to the open target
\* (to no path when the target was removed meanwhile).
PutCopyWrite(p) ==
    /\ calls[p].pc = "copying"
    /\ LET c == calls[p]
       IN Step(p, [c EXCEPT !.pc = "unlink"],
               IF isfile(FS, c.path) THEN write(FS, c.path, files[c.fname]) ELSE FS)

\* put, shutil.move, the copy: the temporary file is unlinked.
PutUnlink(p) ==
    /\ calls[p].pc = "unlink"
    /\ Step(p, [calls[p] EXCEPT !.pc = "done"], os_remove(FS, calls[p].fname))

\* put, shutil.move fails for a reason of the environment, before anything
\* is written or with the target partly written.
PutMoveFails(p) ==
    /\ calls[p].pc \in {"move", "copying"}
    /\ Step(p, [calls[p] EXCEPT !.pc = "failed"], FS)

\* put, _copy, the handler of a failed move: a file at the target is deleted.
PutCleanTarget(p) ==
    /\ calls[p].pc = "failed"
    /\ LET c == calls[p]
       IN Step(p, [c EXCEPT !.pc = "cleantemp"],
               IF isfile(FS, c.path) THEN deletefile(FS, c.path) ELSE FS)

\* put, _copy, the handler of a failed move: the temporary file is deleted
\* and the exception raised.
PutCleanTemp(p) ==
    /\ calls[p].pc = "cleantemp"
    /\ Step(p, [calls[p] EXCEPT !.pc = "done", !.err = "StoreWriteFailure"],
            deletefile(FS, calls[p].fname))

\* delete: realpath(file)
BeginDelete(p, token) ==
    /\ calls[p].pc = "idle"
    /\ \E rp \in realpath(FS, token) :
           Step(p, [Idle EXCEPT !.op = "delete", !.arg = token, !.path = rp,
                                !.pc = IF rp = None THEN "done" ELSE "remove"], FS)

\* delete: os.remove(realpath), the OSError of a file already gone passed
\* over and the cleanup skipped.
DeleteRemove(p) ==
    /\ calls[p].pc = "remove"
    /\ LET c == calls[p]
       IN IF isfile(FS, c.path)
          THEN Step(p, [c EXCEPT !.pc = "listdir", !.cur = dirname(c.path)],
                    os_remove(FS, c.path))
          ELSE Step(p, [c EXCEPT !.pc = "done"], FS)

\* delete, remove_empty: the test of the loop and os.listdir(subpath).
DeleteListdir(p) ==
    /\ calls[p].pc = "listdir"
    /\ LET c == calls[p]
       IN IF c.cur = root \/ ~haspath(c.cur) THEN Step(p, [c EXCEPT !.pc = "done"], FS)
          ELSE IF ~isdir(FS, c.cur)
          THEN Step(p, [c EXCEPT !.pc = "done", !.err = "OSError"], FS)
          ELSE IF listdir(FS, c.cur) # {} THEN Step(p, [c EXCEPT !.pc = "done"], FS)
          ELSE Step(p, [c EXCEPT !.pc = "rmdir"], FS)

\* delete, remove_empty: os.rmdir(subpath), whose error is raised.
DeleteRmdir(p) ==
    /\ calls[p].pc = "rmdir"
    /\ LET c == calls[p]
           r == rmdir(FS, c.cur)
       IN IF r.ok
          THEN Step(p, [c EXCEPT !.pc = "listdir", !.cur = dirname(c.cur)], r.fs)
          ELSE Step(p, [c EXCEPT !.pc = "done", !.err = "OSError"], FS)

InitConcurrent == Init /\ algorithm = "sha256"

NextConcurrent ==
    \/ \E c \in Payloads : Store(c)
    \/ \E p \in Procs, c \in Payloads : BeginPut(p, c)
    \/ \E p \in Procs : PutExists(p)
    \/ \E p \in Procs : PutMkdir(p)
    \/ \E p \in Procs : PutIsFile(p)
    \/ \E p \in Procs : PutDuplicate(p)
    \/ \E p \in Procs : PutRename(p)
    \/ \E p \in Procs : PutCopyOpen(p)
    \/ \E p \in Procs : PutCopyWrite(p)
    \/ \E p \in Procs : PutUnlink(p)
    \/ \E p \in Procs : PutMoveFails(p)
    \/ \E p \in Procs : PutCleanTarget(p)
    \/ \E p \in Procs : PutCleanTemp(p)
    \/ \E p \in Procs, c \in Payloads : BeginDelete(p, hexdigest("sha256", c))
    \/ \E p \in Procs : DeleteRemove(p)
    \/ \E p \in Procs : DeleteListdir(p)
    \/ \E p \in Procs : DeleteRmdir(p)

SpecConcurrent == InitConcurrent /\ [][NextConcurrent]_vars

\* C12: at every point of every interleaving, a file below the root holds
\* the whole content of an object, never a partial write.
NoPartialWrite ==
    \A path \in storefiles(FS) : files[path] \in Payloads

\* C17: when two puts of the same content both found the canonical path
\* vacant, both have finished and one returned an address, the canonical
\* path holds the content and no temporary file of either remains.
PutRaceKeepsObject ==
    \A p, q \in Procs :
        (/\ p # q
         /\ calls[p].op = "put" /\ calls[q].op = "put"
         /\ calls[p].arg = calls[q].arg
         /\ calls[p].vacant /\ calls[q].vacant
         /\ calls[p].pc = "done" /\ calls[q].pc = "done"
         /\ calls[p].err = "none")
        => /\ isfile(FS, calls[p].path)
           /\ files[calls[p].path] = calls[p].arg
           /\ ~isfile(FS, calls[p].fname)
           /\ ~isfile(FS, calls[q].fname)

\* Process p has put an object and got its address, process q is in or past
\* a delete of another object, and no other call is about the object put.
PutBesideDelete(p, q) ==
    /\ calls[p].op = "put" /\ calls[p].pc = "done" /\ calls[p].err = "none"
    /\ calls[q].op = "delete"
    /\ \A o \in Procs \ {p} :
           /\ calls[o].op = "put" => calls[o].arg # calls[p].arg
           /\ calls[o].op = "delete" => calls[o].arg # hexdigest("sha256", calls[p].arg)

\* C18: a put that returns its address beside a delete of another object
\* has its object at the canonical path, whole, whatever the interleaving
\* of the steps of the two calls, and from then on.
PutSurvivesDelete ==
    \A p, q \in Procs :
        PutBesideDelete(p, q) =>
            /\ isfile(FS, calls[p].path)
            /\ files[calls[p].path] = calls[p].arg

\* A put moved its object into the shard directory that a delete had found
\* empty, and the delete failed to remove the directory.
PutSurvivesDeleteWitness ==
    \E p, q \in Procs :
        /\ PutBesideDelete(p, q)
        /\ ~calls[p].is_duplicate
        /\ calls[q].pc = "done"
        /\ calls[q].err = "OSError"
        /\ calls[q].cur = dirname(calls[p].path)

====
